---- MODULE Spec2Model ----
(***************************************************************************)
(* Model of the DotEffectProcessor component (src/unnamed/part_000):       *)
(* the still-image processor, the GIF frame loop, the captured-frame       *)
(* store and the GIF download.                                             *)
(***************************************************************************)
EXTENDS Integers, Sequences, FiniteSets, TLC

(***************************************************************************)
(* Bounds of the model.                                                    *)
(***************************************************************************)
MaxEvents == 3      \* user events: files selected, controls moved, resizes, downloads
MaxTicks == 2       \* renderFrame runs started by a timer

(***************************************************************************)
(* Program constants.                                                      *)
(***************************************************************************)
MAX_CANVAS_SIZE == 4096
DefaultDelayMs == 100       \* line 241: the wait for a frame without delay
EncoderBaseDelayMs == 100   \* line 270: the encoder delay at factor 1
EncoderWorkers == 2

NoDelay == -1

(***************************************************************************)
(* Pixels are <<R, G, B, A>>.  Every pixel of the model has R+G+B          *)
(* divisible by 3, so that (R+G+B)/3 is exact in double arithmetic.        *)
(***************************************************************************)
White == <<255, 255, 255, 255>>
Black == <<0, 0, 0, 255>>
Red == <<255, 0, 0, 255>>
Grey == <<51, 51, 51, 255>>
Clear == <<0, 0, 0, 0>>

Min(a, b) == IF a < b THEN a ELSE b
Max(a, b) == IF a > b THEN a ELSE b

RECURSIVE Pow2(_)
Pow2(n) == IF n = 0 THEN 1 ELSE 2 * Pow2(n - 1)

(***************************************************************************)
(* threshold * 2.55 in IEEE-754 double arithmetic.  The double nearest     *)
(* 2.55 is (51*2^49 - 2)/5 * 2^-51, just below 51/20.  With e the binary   *)
(* exponent of 51t/20 and one unit = 2^(e-52), the exact value 51t/20 is   *)
(* Q + r/5 units and the product t * fl(2.55) is Q + (r*2^e - 4t)/(5*2^e)  *)
(* units, where Q and r are the quotient and remainder of 51t*2^(50-e)     *)
(* by 5.  Both are rounded to the nearest unit, ties to even.              *)
(***************************************************************************)
RECURSIVE BinadeFrom(_, _)
BinadeFrom(t, e) == IF 51 * t < 20 * Pow2(e + 1) THEN e ELSE BinadeFrom(t, e + 1)
Binade(t) == BinadeFrom(t, 1)

\* 2^n mod 5, without forming 2^n
Pow2Mod5(n) == Pow2(n % 4) % 5

\* r: 51t * 2^(50-e) mod 5
UnitRem(t) == ((t % 5) * Pow2Mod5(50 - Binade(t))) % 5

\* units by which the rounded quotient 51t/20 lies above Q
ExactRoundUp(t) == IF UnitRem(t) >= 3 THEN 1 ELSE 0

\* units by which the rounded product t * fl(2.55) lies above Q (0 or -1)
ProductRoundUp(t) ==
    LET e == Binade(t)
        n == UnitRem(t) * Pow2(e) - 4 * t
        d == 5 * Pow2(e)
        qOdd == UnitRem(t) % 2 = 1
    IN  IF 2 * n < -d THEN -1
        ELSE IF 2 * n = -d /\ qOdd THEN -1
        ELSE 0

\* fl(51t/20) > fl(t * fl(2.55)): the double product falls below the value
\* a brightness of exactly 51t/20 has
ProductBelowExact(t) == t > 0 /\ ExactRoundUp(t) > ProductRoundUp(t)

\* avgBrightness > threshold * 2.55, with avgBrightness = total / samples
ExceedsThreshold(total, samples, threshold) ==
    IF 20 * total = 51 * threshold * samples
    THEN ProductBelowExact(threshold)
    ELSE 20 * total > 51 * threshold * samples

(***************************************************************************)
(* Pixel buffers are row-major sequences: the pixel at (x, y) of a buffer  *)
(* of width w is data[y*w + x + 1] (data[(y*w + x)*4 ..] in the source).   *)
(***************************************************************************)
PixelAt(data, w, x, y) == data[y * w + x + 1]

Brightness(px) == (px[1] + px[2] + px[3]) \div 3

\* drawImage(source, 0, 0, width, height): the source scaled to width x height
\* (nearest source pixel; the identity when the sizes agree)
DrawImage(src, sw, sh, width, height) ==
    [i \in 1..(width * height) |->
        LET x == (i - 1) % width
            y == (i - 1) \div width
        IN  PixelAt(src, sw, (x * sw) \div width, (y * sh) \div height)]

(***************************************************************************)
(* Double arithmetic of the fitted size.  The aspect ratio a/b is stored   *)
(* as the nearest double q.  With e the binary exponent of a/b and         *)
(* k = 52 - e, a * 2^k = Q * b + rem, and q * 2^k is Q (rem < b/2) or      *)
(* Q + 1 (rem > b/2): q = a/b + RatioError/(b * 2^k).  A quotient u / q    *)
(* or product u * q whose exact value u*b/a or u*a/b is no integer has the *)
(* floor of the exact value.  When the exact value is the integer n, the   *)
(* double result is n or the double just below n, and Math.floor of the    *)
(* latter is n - 1.                                                        *)
(***************************************************************************)
RECURSIVE Gcd(_, _)
Gcd(a, b) == IF b = 0 THEN a ELSE Gcd(b, a % b)

\* 2^n mod m, without forming 2^n
RECURSIVE Pow2Mod(_, _)
Pow2Mod(n, m) == IF n = 0 THEN 1 % m ELSE (2 * Pow2Mod(n - 1, m)) % m

RECURSIVE ExponentUp(_, _, _)
ExponentUp(a, b, e) == IF a < b * Pow2(e + 1) THEN e ELSE ExponentUp(a, b, e + 1)
RECURSIVE ExponentDown(_, _, _)
ExponentDown(a, b, e) == IF a * Pow2(e) >= b THEN -e ELSE ExponentDown(a, b, e + 1)
\* the e with 2^e <= a/b < 2^(e+1)
Exponent(a, b) == IF a >= b THEN ExponentUp(a, b, 0) ELSE ExponentDown(a, b, 1)

RECURSIVE IsPow2(_)
IsPow2(n) == n = 1 \/ (n % 2 = 0 /\ IsPow2(n \div 2))

\* fl(a/b) - a/b, in units of 1/(b * 2^(52 - e)); a/b is a double when its
\* denominator in lowest terms is a power of two
RatioError(a, b) ==
    IF IsPow2(b \div Gcd(a, b)) THEN 0
    ELSE LET rem == ((a % b) * Pow2Mod(52 - Exponent(a, b), b)) % b
         IN  IF 2 * rem > b THEN b - rem ELSE -rem

\* a result whose exact value is the integer n, computed with a ratio a/b
\* that is off by err units towards a smaller result, rounds to the double
\* below n: n * err / (a * 2^(52 - e)) exceeds half the spacing of the
\* doubles below n
RoundsBelow(n, a, b, err) ==
    LET en == Exponent(n, 1)
        s == 1 + Exponent(a, b) + (IF n = Pow2(en) THEN 1 ELSE 0)
    IN  IF s >= 0 THEN n * err * Pow2(s) > a * Pow2(en)
        ELSE n * err > a * Pow2(en) * Pow2(-s)

\* Math.floor((num/den) / (a/b))
FloorQuotient(num, den, a, b) ==
    LET n == (num * b) \div (den * a)
    IN  IF (num * b) % (den * a) # 0 \/ n = 0 THEN n
        ELSE IF RatioError(a, b) > 0 /\ RoundsBelow(n, a, b, RatioError(a, b))
        THEN n - 1
        ELSE n

\* Math.floor((num/den) * (a/b))
FloorProduct(num, den, a, b) ==
    LET n == (num * a) \div (den * b)
    IN  IF (num * a) % (den * b) # 0 \/ n = 0 THEN n
        ELSE IF RatioError(a, b) < 0 /\ RoundsBelow(n, a, b, -RatioError(a, b))
        THEN n - 1
        ELSE n

\* lines 68-72: scale = min(4096/w, 4096/h, 1) as the fraction <<num, den>>
\* in lowest terms (a double without error when the larger dimension is at
\* most 4096 or a power of two, as it is for every source of the model)
Scale(w, h) ==
    LET m == Max(w, h)
    IN  IF m <= MAX_CANVAS_SIZE THEN <<1, 1>>
        ELSE <<MAX_CANVAS_SIZE \div Gcd(MAX_CANVAS_SIZE, m), m \div Gcd(MAX_CANVAS_SIZE, m)>>

(***************************************************************************)
(* Fitted canvas size <<width, height>>, processImage lines 64-85.         *)
(***************************************************************************)
processImageFit(sw, sh, previewWidth, previewHeight) ==
    LET scale == Scale(sw, sh)
    IN  IF sw * previewHeight > previewWidth * sh
        THEN LET wn == Min(previewWidth * scale[2], sw * scale[1])
             IN  <<wn \div scale[2], FloorQuotient(wn, scale[2], sw, sh)>>
        ELSE LET hn == Min(previewHeight * scale[2], sh * scale[1])
             IN  <<FloorProduct(hn, scale[2], sw, sh), hn \div scale[2]>>

\* renderFrame lines 164-184
renderFrameFit(fullWidth, fullHeight, previewWidth, previewHeight) ==
    LET scale == Scale(fullWidth, fullHeight)
    IN  IF fullWidth * previewHeight > previewWidth * fullHeight
        THEN LET wn == Min(previewWidth * scale[2], fullWidth * scale[1])
             IN  <<wn \div scale[2], FloorQuotient(wn, scale[2], fullWidth, fullHeight)>>
        ELSE LET hn == Min(previewHeight * scale[2], fullHeight * scale[1])
             IN  <<FloorProduct(hn, scale[2], fullWidth, fullHeight), hn \div scale[2]>>

(***************************************************************************)
(* The dot loops.  A dot is recorded by twice its centre (cx2, cy2), so    *)
(* that x + blockSize/2 stays integral, and by its radius rnum/rden.       *)
(***************************************************************************)
Dot(x, y, P, total, samples) ==
    [cx2 |-> 2 * x + P.blockSize, cy2 |-> 2 * y + P.blockSize,
     rnum |-> P.maxRadius * total, rden |-> 255 * samples]

\* samples taken only where the pixel to the right and below is in bounds too
RECURSIVE processImageSamplesInside(_, _, _, _, _, _, _)
processImageSamplesInside(data, width, height, x, y, sy, sx) ==
    IF sx = 0 THEN <<0, 0>>
    ELSE LET prev == processImageSamplesInside(data, width, height, x, y, sy, sx - 1)
             sampleX == x + sx - 1
             sampleY == y + sy
         IN  IF sampleX + 1 < width /\ sampleY + 1 < height
             THEN <<prev[1] + Brightness(PixelAt(data, width, sampleX, sampleY)),
                    prev[2] + 1>>
             ELSE prev

\* processImage lines 106-116: <<totalBrightness, samples>> gathered by the
\* first sx iterations of the inner loop in row sy of the block at (x, y)
RECURSIVE processImageSamples(_, _, _, _, _, _, _)
processImageSamples(data, width, height, x, y, sy, sx) ==
    IF sx = 0 THEN <<0, 0>>
    ELSE LET prev == processImageSamples(data, width, height, x, y, sy, sx - 1)
             sampleX == x + sx - 1
             sampleY == y + sy
         IN  IF sampleX < width /\ sampleY < height
             THEN <<prev[1] + Brightness(PixelAt(data, width, sampleX, sampleY)),
                    prev[2] + 1>>
             ELSE prev

\* processImage lines 103-117: <<totalBrightness, samples>> after the first sy
\* rows of the block at (x, y)
RECURSIVE processImageBlock(_, _, _, _, _, _, _)
processImageBlock(data, width, height, x, y, blockSize, sy) ==
    IF sy = 0 THEN <<0, 0>>
    ELSE LET prev == processImageBlock(data, width, height, x, y, blockSize, sy - 1)
             row == processImageSamples(data, width, height, x, y, sy - 1, blockSize)
         IN  <<prev[1] + row[1], prev[2] + row[2]>>

\* processImage lines 102-125: the dots of grid row y drawn from x on
RECURSIVE processImageRow(_, _, _, _, _, _)
processImageRow(data, width, height, P, x, y) ==
    IF x >= width THEN <<>>
    ELSE LET b == processImageBlock(data, width, height, x, y, P.blockSize, P.blockSize)
             rest == processImageRow(data, width, height, P,
                                     x + P.blockSize + P.spacing, y)
         IN  IF ExceedsThreshold(b[1], b[2], P.threshold)
             THEN <<Dot(x, y, P, b[1], b[2])>> \o rest
             ELSE rest

\* processImage lines 99-126: the dots drawn from grid row y on, in drawing
\* order
RECURSIVE processImageDots(_, _, _, _, _)
processImageDots(data, width, height, P, y) ==
    IF y >= height THEN <<>>
    ELSE processImageRow(data, width, height, P, 0, y)
             \o processImageDots(data, width, height, P, y + P.blockSize + P.spacing)

\* renderFrame lines 201-211
RECURSIVE renderFrameSamples(_, _, _, _, _, _, _)
renderFrameSamples(data, width, height, x, y, sy, sx) ==
    IF sx = 0 THEN <<0, 0>>
    ELSE LET prev == renderFrameSamples(data, width, height, x, y, sy, sx - 1)
             sampleX == x + sx - 1
             sampleY == y + sy
         IN  IF sampleX < width /\ sampleY < height
             THEN <<prev[1] + Brightness(PixelAt(data, width, sampleX, sampleY)),
                    prev[2] + 1>>
             ELSE prev

\* a block averaged over its first row only
renderFrameBlockFirstRow(data, width, height, x, y, blockSize, sy) ==
    renderFrameSamples(data, width, height, x, y, 0, blockSize)

\* renderFrame lines 198-212
RECURSIVE renderFrameBlock(_, _, _, _, _, _, _)
renderFrameBlock(data, width, height, x, y, blockSize, sy) ==
    IF sy = 0 THEN <<0, 0>>
    ELSE LET prev == renderFrameBlock(data, width, height, x, y, blockSize, sy - 1)
             row == renderFrameSamples(data, width, height, x, y, sy - 1, blockSize)
         IN  <<prev[1] + row[1], prev[2] + row[2]>>

\* renderFrame lines 197-226
RECURSIVE renderFrameRow(_, _, _, _, _, _)
renderFrameRow(data, width, height, P, x, y) ==
    IF x >= width THEN <<>>
    ELSE LET b == renderFrameBlock(data, width, height, x, y, P.blockSize, P.blockSize)
             rest == renderFrameRow(data, width, height, P,
                                    x + P.blockSize + P.spacing, y)
         IN  IF ExceedsThreshold(b[1], b[2], P.threshold)
             THEN <<Dot(x, y, P, b[1], b[2])>> \o rest
             ELSE rest

\* renderFrame lines 194-227
RECURSIVE renderFrameDots(_, _, _, _, _)
renderFrameDots(data, width, height, P, y) ==
    IF y >= height THEN <<>>
    ELSE renderFrameRow(data, width, height, P, 0, y)
             \o renderFrameDots(data, width, height, P, y + P.blockSize + P.spacing)

(***************************************************************************)
(* The files the user can select.  A GIF is given as the decoder returns   *)
(* it: the logical screen size (0 when absent) and the frames with their   *)
(* patch, placement and delay.  A still image is given by its pixels.      *)
(***************************************************************************)
Frame(left, top, width, height, delay, patch) ==
    [dims |-> [top |-> top, left |-> left, width |-> width, height |-> height],
     delay |-> delay, patch |-> patch]

File(type, decodable, w, h, frames, pixels) ==
    [type |-> type, decodable |-> decodable, width |-> w, height |-> h,
     frames |-> frames, pixels |-> pixels]

\* two frames, delays [10, 0]; the second patch covers one pixel only
GifA == File(<<"image", "gif">>, TRUE, 2, 2,
             <<Frame(0, 0, 2, 2, 10, <<White, White, White, White>>),
               Frame(1, 1, 1, 1, 0, <<Black>>)>>, <<>>)
\* no logical screen size; delays [5, missing]
GifB == File(<<"image", "gif">>, TRUE, 0, 0,
             <<Frame(0, 0, 2, 1, 5, <<Red, White>>),
               Frame(0, 0, 1, 1, NoDelay, <<Grey>>)>>, <<>>)
\* a GIF without frames
GifZ == File(<<"image", "gif">>, TRUE, 2, 2, <<>>, <<>>)
\* a file the decoder cannot parse
GifBad == File(<<"image", "gif">>, FALSE, 0, 0, <<>>, <<>>)
Still == File(<<"image", "png">>, TRUE, 2, 2, <<>>, <<White, Grey, Black, Red>>)
Other == File(<<"text", "plain">>, TRUE, 0, 0, <<>>, <<>>)

Files == <<GifA, GifB, Still, GifZ, GifBad, Other>>
FileIds == DOMAIN Files

\* handleFile lines 290 and 315; a media type is <<type, subtype>>
IsGif(f) == Files[f].type = <<"image", "gif">>
\* a second branch that takes every file the first one does not
IsImageOfAnyType(f) == ~IsGif(f)
IsImage(f) == ~IsGif(f) /\ Files[f].type[1] = "image"

\* sizes the preview container takes
Containers == {<<4, 4>>, <<1, 1>>}

\* values the controls are moved to
BlockSizes == {6, 4}
MaxRadii == {3, 1}
Spacings == {1, 0}
Thresholds == {20, 100}
FastForwardFactors2 == {2, 3}    \* twice the factor: 1, 1.5
GifQualities == {15, 1}

VARIABLES
    image,           \* useState image: 0 (null) or the file of the still image
    params,          \* blockSize, maxRadius, spacing, threshold, darkBackground
    options,         \* fastForwardFactor (doubled) and gifQuality
    container,       \* clientWidth, clientHeight of the preview container
    canvas,          \* the visible canvas
    offscreen,       \* the offscreen canvas of the last renderFrame
    capturedFrames,  \* capturedFramesRef.current
    loops,           \* one entry per animateGif call: its closure and timer
    reads,           \* FileReaders in flight, with the closure that started them
    resizeTimer,     \* the debounce timer of handleResize is pending
    jobs,            \* GIF encoder instances
    downloads,       \* jobs whose blob was downloaded
    ticks,           \* renderFrame runs completed since capturedFrames was reset
    errors,          \* exceptions no handler caught, as the window reports them
    lastLoaded,      \* the file whose load was completed last (0: none)
    counts           \* how often the user events and the timers were used

vars == <<image, params, options, container, canvas, offscreen, capturedFrames,
          loops, reads, resizeTimer, jobs, downloads, ticks, errors, lastLoaded,
          counts>>

DefaultParams ==
    [blockSize |-> 6, maxRadius |-> 3, spacing |-> 1, threshold |-> 20,
     darkBackground |-> FALSE]

(***************************************************************************)
(* A canvas is recorded by what was drawn on it: its size, the pixels      *)
(* read back by getImageData (data), whether the background was filled     *)
(* and the dots drawn (filled), the parameters the drawing code read (P),  *)
(* and the frame loop and frame it shows (loop 0: the still image).  The   *)
(* picture itself is Background and Dots of the record.                    *)
(***************************************************************************)
BlankCanvas(width, height) ==
    [width |-> width, height |-> height, data |-> <<>>, filled |-> FALSE,
     P |-> DefaultParams, loop |-> 0, frame |-> 0]

\* lines 95-96 and 192-193
Background(cv) ==
    IF ~cv.filled THEN "transparent"
    ELSE IF cv.P.darkBackground THEN "black" ELSE "white"

\* the dots on the canvas: lines 98-126 for the still image, lines 194-227
\* for a frame
Dots(cv) ==
    IF ~cv.filled THEN <<>>
    ELSE IF cv.loop = 0 THEN processImageDots(cv.data, cv.width, cv.height, cv.P, 0)
    ELSE renderFrameDots(cv.data, cv.width, cv.height, cv.P, 0)

NoOffscreen == [loop |-> 0, frame |-> 0, width |-> 0, height |-> 0, data |-> <<>>]

\* the component after mounting, but for the canvas
InitComponent ==
    /\ image = 0
    /\ params = DefaultParams
    /\ options = [fastForwardFactor2 |-> 2, gifQuality |-> 15]
    /\ container = <<4, 4>>
    /\ offscreen = NoOffscreen
    /\ capturedFrames = <<>>
    /\ loops = <<>>
    /\ reads = <<>>
    /\ resizeTimer = FALSE
    /\ jobs = <<>>
    /\ downloads = <<>>
    /\ ticks = 0
    /\ errors = {}
    /\ lastLoaded = 0
    /\ counts = [events |-> 0, ticks |-> 0, files |-> 0, encodes |-> 0]

Init == InitComponent /\ canvas = BlankCanvas(300, 150)

RemoveAt(seq, i) == SubSeq(seq, 1, i - 1) \o SubSeq(seq, i + 1, Len(seq))

\* getImageData(0, 0, width, height) throws for an empty rectangle
EmptyRectangle(width, height) == width = 0 \/ height = 0

(***************************************************************************)
(* processImage: the canvas after processing still image f under P.  When  *)
(* getImageData throws, the canvas is left resized and blank.              *)
(***************************************************************************)
processImage(f, P, cont) ==
    LET size == processImageFit(Files[f].width, Files[f].height, cont[1], cont[2])
        width == size[1]
        height == size[2]
        data == DrawImage(Files[f].pixels, Files[f].width, Files[f].height,
                          width, height)
    IN  IF EmptyRectangle(width, height) THEN BlankCanvas(width, height)
        ELSE [width |-> width, height |-> height, data |-> data, filled |-> TRUE,
              P |-> P, loop |-> 0, frame |-> 0]

\* the exceptions that escape processImage
processImageThrows(f, cont) ==
    LET size == processImageFit(Files[f].width, Files[f].height, cont[1], cont[2])
    IN  IF EmptyRectangle(size[1], size[2]) THEN {"IndexSizeError"} ELSE {}

\* a re-processing that leaves the canvas as it is
processLoadedImageSkipped(img, P, cont, cv) == cv

\* lines 357-359 and 371-373: if (image) processImage(image)
processLoadedImage(img, P, cont, cv) ==
    IF img # 0 THEN processImage(img, P, cont) ELSE cv

processLoadedImageThrows(img, cont) ==
    IF img # 0 THEN processImageThrows(img, cont) ELSE {}

\* renderFrame lines 148-162: a fresh offscreen canvas holding the frame's patch
Composite(frame, fullWidth, fullHeight) ==
    [i \in 1..(fullWidth * fullHeight) |->
        LET x == (i - 1) % fullWidth
            y == (i - 1) \div fullWidth
        IN  IF /\ x >= frame.dims.left /\ x < frame.dims.left + frame.dims.width
               /\ y >= frame.dims.top /\ y < frame.dims.top + frame.dims.height
            THEN PixelAt(frame.patch, frame.dims.width,
                         x - frame.dims.left, y - frame.dims.top)
            ELSE Clear]

\* a delay clamped from below instead of defaulted
FrameDelayClamped(frame) ==
    IF frame.delay # NoDelay THEN Max(frame.delay * 10, DefaultDelayMs)
    ELSE DefaultDelayMs

\* renderFrame line 241
FrameDelay(frame) ==
    IF frame.delay # NoDelay /\ frame.delay # 0 THEN frame.delay * 10
    ELSE DefaultDelayMs

\* a frame index that is never advanced
NextFrameRepeated(currentFrame, n) == currentFrame

\* renderFrame line 240
NextFrame(currentFrame, n) == (currentFrame + 1) % n

\* renderFrame lines 229-237
Capture(frames, cv) == Append(frames, cv)

(***************************************************************************)
(* renderFrame of loop l (a record of loops): what it leaves behind.       *)
(* done is FALSE when the run throws, which also ends the loop: without a  *)
(* frame at line 158, with an empty canvas at line 190.                    *)
(***************************************************************************)
renderFrame(l, loop, cont, cv, off, captured) ==
    LET frames == Files[loop.file].frames
        frame == frames[loop.currentFrame + 1]
        size == renderFrameFit(loop.fullWidth, loop.fullHeight, cont[1], cont[2])
        width == size[1]
        height == size[2]
        comp == [loop |-> l, frame |-> loop.currentFrame, width |-> loop.fullWidth,
                 height |-> loop.fullHeight,
                 data |-> Composite(frame, loop.fullWidth, loop.fullHeight)]
        data == DrawImage(comp.data, loop.fullWidth, loop.fullHeight, width, height)
        drawn == [width |-> width, height |-> height, data |-> data,
                  filled |-> TRUE, P |-> loop.P, loop |-> l,
                  frame |-> loop.currentFrame]
    IN  IF Len(frames) = 0
        THEN [done |-> FALSE, canvas |-> cv, offscreen |-> off, captured |-> captured,
              loop |-> [loop EXCEPT !.pc = "stopped"], thrown |-> {"TypeError"}]
        ELSE IF EmptyRectangle(width, height)
        THEN [done |-> FALSE, canvas |-> BlankCanvas(width, height),
              offscreen |-> comp, captured |-> captured,
              loop |-> [loop EXCEPT !.pc = "stopped"], thrown |-> {"IndexSizeError"}]
        ELSE [done |-> TRUE, canvas |-> drawn, offscreen |-> comp,
              captured |-> Capture(captured, drawn),
              loop |-> [loop EXCEPT !.currentFrame = NextFrame(loop.currentFrame, Len(frames)),
                                    !.delay = FrameDelay(frame),
                                    !.pc = "scheduled"],
              thrown |-> {}]

RECURSIVE MaxOver(_, _, _)
MaxOver(frames, k, horizontal) ==
    IF k = 0 THEN 0
    ELSE Max(MaxOver(frames, k - 1, horizontal),
             IF horizontal THEN frames[k].dims.left + frames[k].dims.width
             ELSE frames[k].dims.top + frames[k].dims.height)

\* handleFile lines 299-310
FullWidth(f) ==
    IF Files[f].width # 0 THEN Files[f].width
    ELSE MaxOver(Files[f].frames, Len(Files[f].frames), TRUE)
FullHeight(f) ==
    IF Files[f].height # 0 THEN Files[f].height
    ELSE MaxOver(Files[f].frames, Len(Files[f].frames), FALSE)

\* an animateGif that keeps the frames captured so far
ResetCapturedKept(frames) == frames

\* animateGif line 143
ResetCaptured(frames) == <<>>

(***************************************************************************)
(* handleFile: starts reading the file.  The callbacks of the reader run   *)
(* in the closure of the render that handled the event, with the           *)
(* parameters of that render.                                              *)
(***************************************************************************)
HandleFile(f) ==
    /\ counts.events < MaxEvents
    /\ counts' = [counts EXCEPT !.events = @ + 1, !.files = @ + 1]
    /\ reads' = IF IsGif(f) \/ IsImage(f)
                THEN Append(reads, [file |-> f, P |-> params])
                ELSE reads
    /\ UNCHANGED <<image, params, options, container, canvas, offscreen,
                   capturedFrames, loops, resizeTimer, jobs, downloads, ticks,
                   errors, lastLoaded>>

\* reader.onload of a GIF: parseGIF throws, or animateGif resets the captured
\* frames and renders the first frame
GifLoaded(i) ==
    /\ i \in DOMAIN reads
    /\ IsGif(reads[i].file)
    /\ reads' = RemoveAt(reads, i)
    /\ IF ~Files[reads[i].file].decodable
       THEN /\ errors' = errors \cup {"parseGIF"}
            /\ UNCHANGED <<canvas, offscreen, capturedFrames, loops, ticks,
                           lastLoaded>>
       ELSE LET f == reads[i].file
                l == Len(loops) + 1
                loop == [file |-> f, currentFrame |-> 0, pc |-> "stopped", delay |-> 0,
                         P |-> reads[i].P, fullWidth |-> FullWidth(f),
                         fullHeight |-> FullHeight(f)]
                r == renderFrame(l, loop, container, canvas, offscreen,
                                 ResetCaptured(capturedFrames))
            IN  /\ canvas' = r.canvas
                /\ offscreen' = r.offscreen
                /\ capturedFrames' = r.captured
                /\ loops' = Append(loops, r.loop)
                /\ ticks' = IF r.done THEN 1 ELSE 0
                /\ errors' = errors \cup r.thrown
                /\ lastLoaded' = f
    /\ UNCHANGED <<image, params, options, container, resizeTimer, jobs, downloads,
                   counts>>

\* img.onload of a still image: setImage and processImage in the closure of
\* the reader, then the effects of the new render: the resize effect is
\* re-armed and the image is processed under the current parameters
ImageLoaded(i) ==
    /\ i \in DOMAIN reads
    /\ IsImage(reads[i].file)
    /\ reads' = RemoveAt(reads, i)
    /\ image' = reads[i].file
    /\ lastLoaded' = reads[i].file
    /\ canvas' = processImage(reads[i].file, params, container)
    /\ errors' = errors \cup processImageThrows(reads[i].file, container)
    /\ resizeTimer' = FALSE
    /\ UNCHANGED <<params, options, container, offscreen, capturedFrames, loops,
                   jobs, downloads, ticks, counts>>

\* the continuation scheduled at lines 242-244 runs: the timer fires after
\* loops[l].delay ms, its callback requests an animation frame (it touches no
\* state) and the animation frame callback is renderFrame
FrameRendered(l) ==
    /\ l \in DOMAIN loops
    /\ loops[l].pc = "scheduled"
    /\ counts.ticks < MaxTicks
    /\ LET r == renderFrame(l, loops[l], container, canvas, offscreen, capturedFrames)
       IN  /\ canvas' = r.canvas
           /\ offscreen' = r.offscreen
           /\ capturedFrames' = r.captured
           /\ loops' = [loops EXCEPT ![l] = r.loop]
           /\ ticks' = IF r.done THEN ticks + 1 ELSE ticks
           /\ errors' = errors \cup r.thrown
    /\ counts' = [counts EXCEPT !.ticks = @ + 1]
    /\ UNCHANGED <<image, params, options, container, reads, resizeTimer, jobs,
                   downloads, lastLoaded>>

(***************************************************************************)
(* A changed parameter re-renders the component: the cleanup of the resize *)
(* effect clears its timer and the processing effect redraws the still     *)
(* image, if one is loaded, under the new parameters.                      *)
(***************************************************************************)
ParamsChanged(P) ==
    /\ counts.events < MaxEvents
    /\ P # params
    /\ params' = P
    /\ counts' = [counts EXCEPT !.events = @ + 1]
    /\ resizeTimer' = FALSE
    /\ canvas' = processLoadedImage(image, P, container, canvas)
    /\ errors' = errors \cup processLoadedImageThrows(image, container)
    /\ UNCHANGED <<image, options, container, offscreen, capturedFrames, loops,
                   reads, jobs, downloads, ticks, lastLoaded>>

SetBlockSize(v) == ParamsChanged([params EXCEPT !.blockSize = v])
SetMaxRadius(v) == ParamsChanged([params EXCEPT !.maxRadius = v])
SetSpacing(v) == ParamsChanged([params EXCEPT !.spacing = v])
SetThreshold(v) == ParamsChanged([params EXCEPT !.threshold = v])
SetDarkBackground(v) == ParamsChanged([params EXCEPT !.darkBackground = v])

\* the download options are no dependency of an effect
OptionsChanged(o) ==
    /\ counts.events < MaxEvents
    /\ o # options
    /\ options' = o
    /\ counts' = [counts EXCEPT !.events = @ + 1]
    /\ UNCHANGED <<image, params, container, canvas, offscreen, capturedFrames,
                   loops, reads, resizeTimer, jobs, downloads, ticks, errors,
                   lastLoaded>>

SetFastForwardFactor(v) == OptionsChanged([options EXCEPT !.fastForwardFactor2 = v])
SetGifQuality(v) == OptionsChanged([options EXCEPT !.gifQuality = v])

\* the window is resized: handleResize restarts its debounce timer
Resize(c) ==
    /\ counts.events < MaxEvents
    /\ c # container
    /\ container' = c
    /\ resizeTimer' = TRUE
    /\ counts' = [counts EXCEPT !.events = @ + 1]
    /\ UNCHANGED <<image, params, options, canvas, offscreen, capturedFrames, loops,
                   reads, jobs, downloads, ticks, errors, lastLoaded>>

\* the debounce timer fires, lines 356-360
ResizeTimeout ==
    /\ resizeTimer
    /\ resizeTimer' = FALSE
    /\ canvas' = processLoadedImage(image, params, container, canvas)
    /\ errors' = errors \cup processLoadedImageThrows(image, container)
    /\ UNCHANGED <<image, params, options, container, offscreen, capturedFrames,
                   loops, reads, jobs, downloads, ticks, counts,
                   lastLoaded>>

(***************************************************************************)
(* downloadProcessedGif(capturedFramesRef.current, options).  A delay is   *)
(* the rational num/den: 100 / fastForwardFactor = 200 / (2 * factor).     *)
(***************************************************************************)
\* the delay multiplied by the factor instead of divided
EncoderDelayTimes(o) == [num |-> EncoderBaseDelayMs * o.fastForwardFactor2, den |-> 2]

EncoderDelay(o) == [num |-> 2 * EncoderBaseDelayMs, den |-> o.fastForwardFactor2]

\* lines 269-271: gif.addFrame of every frame, copied
AddFrames(frames, o) ==
    [i \in 1..Len(frames) |-> [frame |-> frames[i], delay |-> EncoderDelay(o)]]

\* lines 274-282: the events of the encoder a handler is registered for
EncoderHandlers == {"finished"}

\* an encode request that makes an encoder job of an empty sequence too
downloadProcessedGifAlways(frames, o) ==
    Append(jobs, [workers |-> EncoderWorkers, quality |-> o.gifQuality,
                  width |-> 0, height |-> 0,
                  frames |-> AddFrames(frames, o), handlers |-> EncoderHandlers,
                  state |-> "rendering"])

downloadProcessedGif(frames, o) ==
    IF Len(frames) = 0 THEN jobs
    ELSE Append(jobs, [workers |-> EncoderWorkers, quality |-> o.gifQuality,
                       width |-> frames[1].width, height |-> frames[1].height,
                       frames |-> AddFrames(frames, o), handlers |-> EncoderHandlers,
                       state |-> "rendering"])

Download ==
    /\ counts.events < MaxEvents
    /\ counts' = [counts EXCEPT !.events = @ + 1, !.encodes = @ + 1]
    /\ jobs' = downloadProcessedGif(capturedFrames, options)
    /\ UNCHANGED <<image, params, options, container, canvas, offscreen,
                   capturedFrames, loops, reads, resizeTimer, downloads, ticks,
                   errors, lastLoaded>>

\* the encoder emits "finished": the blob is downloaded as dot-effect.gif
EncoderFinished(j) ==
    /\ j \in DOMAIN jobs
    /\ jobs[j].state = "rendering"
    /\ "finished" \in jobs[j].handlers
    /\ jobs' = [jobs EXCEPT ![j].state = "finished"]
    /\ downloads' = Append(downloads, j)
    /\ UNCHANGED <<image, params, options, container, canvas, offscreen,
                   capturedFrames, loops, reads, resizeTimer, ticks, errors, counts,
                   lastLoaded>>

\* the encoder fails (a worker that cannot start, a frame it rejects): it
\* never emits "finished", and no other event has a handler
EncoderFailed(j) ==
    /\ j \in DOMAIN jobs
    /\ jobs[j].state = "rendering"
    /\ jobs' = [jobs EXCEPT ![j].state = "failed"]
    /\ UNCHANGED <<image, params, options, container, canvas, offscreen,
                   capturedFrames, loops, reads, resizeTimer, downloads, ticks,
                   errors, counts, lastLoaded>>

Next ==
    \/ \E f \in FileIds : HandleFile(f)
    \/ \E i \in DOMAIN reads : GifLoaded(i)
    \/ \E i \in DOMAIN reads : ImageLoaded(i)
    \/ \E l \in DOMAIN loops : FrameRendered(l)
    \/ \E v \in BlockSizes : SetBlockSize(v)
    \/ \E v \in MaxRadii : SetMaxRadius(v)
    \/ \E v \in Spacings : SetSpacing(v)
    \/ \E v \in Thresholds : SetThreshold(v)
    \/ \E v \in BOOLEAN : SetDarkBackground(v)
    \/ \E v \in FastForwardFactors2 : SetFastForwardFactor(v)
    \/ \E v \in GifQualities : SetGifQuality(v)
    \/ \E c \in Containers : Resize(c)
    \/ ResizeTimeout
    \/ Download
    \/ \E j \in DOMAIN jobs : EncoderFinished(j)
    \/ \E j \in DOMAIN jobs : EncoderFailed(j)

Spec == Init /\ [][Next]_vars

\* the timers of the frame loops fire: a scheduled continuation runs
SpecFair == Spec /\ WF_vars(\E l \in DOMAIN loops : FrameRendered(l))

(***************************************************************************)
(* Claims about the captured frames and the frame loops.                   *)
(***************************************************************************)
Latest == Len(loops)                       \* the loop of the last animation loaded
Scheduled(l) == loops[l].pc = "scheduled"   \* loop l has a continuation pending
FrameCount(l) == Len(Files[loops[l].file].frames)

\* a step in which the continuation of loop l ran
Ticked(l) == l \in DOMAIN loops /\ loops'[l] # loops[l]
\* a step in which a file finished loading (GIF decoded or image decoded)
Loaded == Len(reads') < Len(reads) /\ Files[reads[CHOOSE i \in DOMAIN reads :
              reads' = RemoveAt(reads, i)].file].decodable

\* C1: every captured frame comes from the animation loaded last, and the
\* frames handed to one encode request all come from one animation.
C1_FramesOfLatestAnimation ==
    /\ \A i \in DOMAIN capturedFrames : capturedFrames[i].loop = Latest
    /\ \A j \in DOMAIN jobs : \A i, k \in DOMAIN jobs[j].frames :
           jobs[j].frames[i].frame.loop = jobs[j].frames[k].frame.loop

\* C2: the continuation of a replaced animation is a no-op: when it runs,
\* the canvas and the captured frames stay as they are.
C2_StaleContinuationIsNoOp ==
    [][\A l \in DOMAIN loops :
          (l < Latest /\ Ticked(l)) =>
              (canvas' = canvas /\ capturedFrames' = capturedFrames)]_vars

\* C3: when a file has been loaded the captured frames hold nothing of an
\* earlier animation and no earlier animation has a tick pending.
C3_LoadResetsPipeline ==
    [][Loaded =>
          /\ \A i \in DOMAIN capturedFrames' : capturedFrames'[i].loop > Len(loops)
          /\ \A l \in DOMAIN loops : loops'[l].pc # "scheduled"]_vars

\* a step in which animateGif ran: a frame loop was added
AnimationStarted == Len(loops') > Len(loops)

\* C4 (amended): the captured frames are as many as the ticks completed since
\* the last reset, and right after an animation is loaded they are the one
\* frame of its first tick, or none when that tick aborted.
C4_LengthIsCompletedTicks ==
    /\ [](Len(capturedFrames) = ticks)
    /\ [][AnimationStarted =>
            /\ Len(capturedFrames') <= 1
            /\ \A i \in DOMAIN capturedFrames' :
                   capturedFrames'[i].loop = Len(loops') /\ capturedFrames'[i].frame = 0
            /\ Len(capturedFrames') = 1 <=> loops'[Len(loops')].pc = "scheduled"]_vars

\* C4 as claimed: the length is the number of ticks since the last reset and
\* the sequence is empty right after an animation is loaded.
C4_EmptyAfterLoad ==
    /\ [](Len(capturedFrames) = ticks)
    /\ [][AnimationStarted => capturedFrames' = <<>>]_vars

\* a second animation was loaded and ticks went on after its reset
C4_Witness == Len(loops) = 2 /\ ticks >= 2 /\ Len(capturedFrames) = ticks

\* C5: while one animation of N frames plays, never more than N frames are
\* captured.
C5_AtMostOneLoopCaptured ==
    Len(loops) = 1 => Len(capturedFrames) <= FrameCount(1)

\* C6: an encode request hands the encoder the captured frames, each once and
\* in order, all with the delay 100 / fastForwardFactor, and leaves the
\* captured frames as they are.
C6_EncoderGetsCapturedFrames ==
    [][Len(jobs') > Len(jobs) =>
          LET job == jobs'[Len(jobs')]
          IN  /\ capturedFrames # <<>>
              /\ capturedFrames' = capturedFrames
              /\ Len(job.frames) = Len(capturedFrames)
              /\ \A i \in DOMAIN job.frames :
                    /\ job.frames[i].frame = capturedFrames[i]
                    /\ job.frames[i].delay.num * options.fastForwardFactor2
                           = 200 * job.frames[i].delay.den]_vars

\* an encoder job at factor 1.5 with frames of different source delays
C6_Witness ==
    \E j \in DOMAIN jobs :
        /\ jobs[j].frames[1].delay = [num |-> 200, den |-> 3]
        /\ Len(jobs[j].frames) >= 2
        /\ jobs[j].frames[1].frame.frame # jobs[j].frames[2].frame.frame

\* C7: a tick draws the frame under the parameters current at the tick.
C7_TickUsesCurrentParameters ==
    [][\A l \in DOMAIN loops :
          (Ticked(l) /\ canvas'.loop = l /\ canvas'.filled) =>
              /\ Dots(canvas') = renderFrameDots(canvas'.data, canvas'.width,
                                                 canvas'.height, params, 0)
              /\ Background(canvas') =
                     (IF params.darkBackground THEN "black" ELSE "white")]_vars

\* C8: a tick changes the composite only inside the rectangle of its patch.
C8_CompositePersistsOutsidePatch ==
    [][\A l \in DOMAIN loops :
          (Ticked(l) /\ offscreen.loop = l /\ offscreen'.loop = l /\ FrameCount(l) > 0) =>
              LET dims == Files[loops[l].file].frames[loops[l].currentFrame + 1].dims
              IN  \A i \in DOMAIN offscreen'.data :
                      LET x == (i - 1) % offscreen'.width
                          y == (i - 1) \div offscreen'.width
                      IN  (\/ x < dims.left \/ x >= dims.left + dims.width
                           \/ y < dims.top \/ y >= dims.top + dims.height)
                          => offscreen'.data[i] = offscreen.data[i]]_vars

\* the frame loop l showed before it scheduled its continuation
ShownFrame(l) ==
    Files[loops[l].file].frames[
        ((loops[l].currentFrame + FrameCount(l) - 1) % FrameCount(l)) + 1]

\* C9 (amended): the wait after a frame is ten times its delay, and 100 ms
\* when the delay is zero or missing.
C9_WaitIsTenTimesDelayOrDefault ==
    \A l \in DOMAIN loops :
        Scheduled(l) =>
            LET d == ShownFrame(l).delay
            IN  /\ d \in {0, NoDelay} => loops[l].delay = 100
                /\ d \notin {0, NoDelay} => loops[l].delay = 10 * d

\* C9 as claimed: the wait is max(delay * 10, 100), 100 for a missing delay.
C9_WaitIsAtLeast100 ==
    \A l \in DOMAIN loops :
        Scheduled(l) =>
            LET d == ShownFrame(l).delay
            IN  loops[l].delay = IF d = NoDelay THEN 100 ELSE Max(10 * d, 100)

\* a loop waits 50 ms after a frame of delay 5
C9_Witness ==
    \E l \in DOMAIN loops :
        Scheduled(l) /\ ShownFrame(l).delay = 5 /\ loops[l].delay = 50

(***************************************************************************)
(* Claims about failures, rejected input and re-processing.                *)
(***************************************************************************)
\* the blob of job j was handed to the user
Downloaded(j) == \E i \in DOMAIN downloads : downloads[i] = j
\* the failure of job j reached a handler: one registered for an event
\* other than "finished"
FailureReported(j) ==
    jobs[j].state = "failed" /\ jobs[j].handlers \ {"finished"} # {}

\* C13: an encode request that has ended has ended in a download or in a
\* failure reported to the user, never in neither.
C13_EncodeEndsInArtifactOrReport ==
    \A j \in DOMAIN jobs :
        jobs[j].state # "rendering" => (Downloaded(j) \/ FailureReported(j))

\* a step in which the decoder failed on a loaded container
DecodeFailed ==
    \E i \in DOMAIN reads :
        /\ reads' = RemoveAt(reads, i)
        /\ Files[reads[i].file].type = <<"image", "gif">>
        /\ ~Files[reads[i].file].decodable

\* C14: a container the decoder cannot parse raises its failure and leaves
\* the pipeline idle: the canvas and the captured frames are untouched, no
\* frame loop is added and none is left playing.
C14_DecodeFailureLeavesIdle ==
    [][DecodeFailed =>
          /\ "parseGIF" \in errors'
          /\ canvas' = canvas
          /\ capturedFrames' = capturedFrames
          /\ Len(loops') = Len(loops)
          /\ \A l \in DOMAIN loops' : loops'[l].pc # "scheduled"]_vars

\* C15: a file that is neither image/gif nor image/... changes nothing, and
\* every other file starts exactly one of the two readers.
C15_UnsupportedFileIsNoOp ==
    [][\A f \in FileIds :
          HandleFile(f) =>
              IF Files[f].type[1] = "image"
              THEN /\ reads' = Append(reads, [file |-> f, P |-> params])
                   /\ IsGif(f) # IsImage(f)
              ELSE UNCHANGED <<image, params, options, container, canvas, offscreen,
                               capturedFrames, loops, reads, resizeTimer, jobs,
                               downloads, ticks, errors, lastLoaded>>]_vars

\* two files were handled and one animation plays; the other file left no
\* reader, no image, no frame loop and no error
C15_Witness ==
    /\ counts.files = 2 /\ Len(loops) = 1 /\ Scheduled(1)
    /\ reads = <<>> /\ image = 0 /\ errors = {}

\* a step in which the download button was pressed
EncodeRequested == counts'.encodes > counts.encodes

\* C16: an encode request on an empty sequence of captured frames creates no
\* encoder job, produces no download, raises no error and changes no state.
C16_EmptyEncodeIsNoOp ==
    [][(EncodeRequested /\ capturedFrames = <<>>) =>
          UNCHANGED <<image, params, options, container, canvas, offscreen,
                      capturedFrames, loops, reads, resizeTimer, jobs, downloads,
                      ticks, errors, lastLoaded>>]_vars

\* the button was pressed with a still image on the canvas and nothing
\* captured: no encoder job exists
C16_Witness ==
    /\ counts.encodes >= 1 /\ jobs = <<>> /\ capturedFrames = <<>>
    /\ image # 0 /\ canvas.filled

\* C17: a parameter change while a still image is loaded re-processes the
\* image: the canvas then shows the dot transform of the image under the new
\* parameters.
C17_ParameterChangeReprocessesStill ==
    [][(params' # params /\ image # 0) =>
          /\ canvas' = processImage(image, params', container)
          /\ canvas'.filled =>
                 /\ canvas'.loop = 0
                 /\ Dots(canvas') = processImageDots(canvas'.data, canvas'.width,
                                                     canvas'.height, params', 0)
                 /\ Background(canvas') =
                        (IF params'.darkBackground THEN "black" ELSE "white")]_vars

\* a still image is shown under parameters that differ from the initial ones
\* in the threshold and the background
C17_Witness ==
    /\ image # 0 /\ canvas.filled /\ canvas.loop = 0
    /\ params.threshold = 100 /\ params.darkBackground
    /\ canvas.P = params

\* the animation loaded last has a tick pending
Playing == Len(loops) > 0 /\ Scheduled(Latest)

\* C18: an animation that is playing and is not replaced keeps playing: its
\* loop never stops on its own, and while it plays another tick always
\* follows (as long as the model lets timers fire).
C18_PlaybackIsPerpetual ==
    /\ [][\A l \in DOMAIN loops :
             (l = Latest /\ Scheduled(l) /\ Len(loops') = Len(loops))
                 => loops'[l].pc = "scheduled"]_vars
    /\ \A n \in 0..(MaxTicks - 1) :
           ((Playing /\ counts.ticks = n) ~> (counts.ticks > n \/ ~Playing))

\* the frames captured from the animation loaded last, in the order of its
\* ticks since it was loaded
FramesOfLatest == SelectSeq(capturedFrames, LAMBDA c : c.loop = Latest)

\* C19: the k-th tick of an animation of N frames, counted from 0 at its
\* load, renders frame k mod N, and the frame to render next is the one
\* after the last.
C19_TicksRenderFramesCyclically ==
    /\ \A k \in DOMAIN FramesOfLatest :
           FramesOfLatest[k].frame = (k - 1) % FrameCount(Latest)
    /\ Playing =>
           loops[Latest].currentFrame = Len(FramesOfLatest) % FrameCount(Latest)

\* an animation of two frames has ticked three times: frames 0, 1, 0
C19_Witness ==
    /\ Len(FramesOfLatest) = 3
    /\ FrameCount(Latest) = 2
    /\ FramesOfLatest[3].frame = 0

(***************************************************************************)
(* Claims about the still image under an animation, the sizes of the       *)
(* captured frames and the frame index.                                    *)
(***************************************************************************)
\* a still image was loaded and, after it, the animation that now plays
AnimationReplacedStill ==
    /\ image # 0
    /\ lastLoaded # 0 /\ Files[lastLoaded].type = <<"image", "gif">>
    /\ Playing

\* C22: once an animation was loaded after a still image, the canvas is
\* written by the ticks of frame loops only: no parameter change and no
\* resize redraws the still image.
C22_StillNeverRedrawnOverAnimation ==
    [][(AnimationReplacedStill /\ lastLoaded' = lastLoaded /\ canvas' # canvas) =>
          \/ \E l \in DOMAIN loops : Ticked(l)
          \/ Len(loops') > Len(loops)]_vars

\* C23: the captured frames all have one width and height, and the frames of
\* an encoder job all have the width and height the encoder was given.
C23_CapturedFramesShareOneSize ==
    /\ \A i \in DOMAIN capturedFrames :
           /\ capturedFrames[i].width = capturedFrames[1].width
           /\ capturedFrames[i].height = capturedFrames[1].height
    /\ \A j \in DOMAIN jobs : \A i \in DOMAIN jobs[j].frames :
           /\ jobs[j].frames[i].frame.width = jobs[j].width
           /\ jobs[j].frames[i].frame.height = jobs[j].height

\* C25: the frame index of every frame loop is an index of its frames,
\* 0 <= index < N, and no tick has read a frame that does not exist.
C25_FrameIndexIsValid ==
    /\ \A l \in DOMAIN loops :
           loops[l].currentFrame >= 0 /\ loops[l].currentFrame < FrameCount(l)
    /\ "TypeError" \notin errors

(***************************************************************************)
(* The dot transform on its own: the canvas holds an arbitrary pixel       *)
(* buffer read back by getImageData, and the code that follows in          *)
(* processImage (lines 94-126) or renderFrame (lines 192-227) fills the    *)
(* background and draws the dots under arbitrary parameters.               *)
(***************************************************************************)
DotSizes == {1, 7, 16}
DotBlockSizes == {4, 8}
DotSpacings == {0, 1}
DotMaxRadii == {1, 4}
DotThresholds == {0, 20, 100}
DotPatterns == 1..6

\* the pixel of pattern k at (x, y)
Pattern(k, x, y) ==
    CASE k = 1 -> White
      [] k = 2 -> Grey
      [] k = 3 -> Black
      [] k = 4 -> Red
      [] k = 5 -> IF x < 8 THEN White ELSE Black
      [] k = 6 -> IF (x + y) % 2 = 0 THEN White ELSE Red

Raster(k, w, h) == [i \in 1..(w * h) |-> Pattern(k, (i - 1) % w, (i - 1) \div w)]

DotInputs ==
    {[width |-> w, height |-> h, data |-> Raster(k, w, h), filled |-> FALSE,
      P |-> [blockSize |-> bs, maxRadius |-> mr, spacing |-> sp, threshold |-> t,
             darkBackground |-> dk],
      loop |-> lp, frame |-> 0] :
        w \in DotSizes, h \in DotSizes, k \in DotPatterns, bs \in DotBlockSizes,
        mr \in DotMaxRadii, sp \in DotSpacings, t \in DotThresholds,
        dk \in BOOLEAN, lp \in {0, 1}}

InitDot == InitComponent /\ canvas \in DotInputs

\* lines 94-126 (loop 0) and 192-227 (loop 1)
FillAndDrawDots ==
    /\ ~canvas.filled
    /\ canvas' = [canvas EXCEPT !.filled = TRUE]
    /\ UNCHANGED <<image, params, options, container, offscreen, capturedFrames,
                   loops, reads, resizeTimer, jobs, downloads, ticks, errors, counts,
                   lastLoaded>>

NextDot == FillAndDrawDots

SpecDot == InitDot /\ [][NextDot]_vars

(***************************************************************************)
(* Claims about the dot transform.                                         *)
(***************************************************************************)
GridOrigins(cv) ==
    {o \in (0..(cv.width - 1)) \X (0..(cv.height - 1)) :
        /\ o[1] % (cv.P.blockSize + cv.P.spacing) = 0
        /\ o[2] % (cv.P.blockSize + cv.P.spacing) = 0}

\* the pixels of the block at origin o that lie inside the raster
BlockPositions(cv, o) ==
    {q \in (o[1]..(o[1] + cv.P.blockSize - 1)) \X (o[2]..(o[2] + cv.P.blockSize - 1)) :
        q[1] < cv.width /\ q[2] < cv.height}

\* (R + G + B) / 3 of the pixel at q
Luminance(cv, q) ==
    LET px == cv.data[q[2] * cv.width + q[1] + 1]
    IN  (px[1] + px[2] + px[3]) \div 3

\* the sum of v * (number of positions of luminance v) over the values V
RECURSIVE WeightedCount(_, _, _)
WeightedCount(cv, S, V) ==
    IF V = {} THEN 0
    ELSE LET v == CHOOSE v \in V : TRUE
         IN  v * Cardinality({q \in S : Luminance(cv, q) = v})
                 + WeightedCount(cv, S, V \ {v})

\* the sum of the luminances of the positions S
BrightnessSum(cv, S) == WeightedCount(cv, S, {Luminance(cv, q) : q \in S})

\* the average brightness of the block at o exceeds threshold * 2.55 = 51t/20
AboveThreshold(cv, o) ==
    20 * BrightnessSum(cv, BlockPositions(cv, o))
        > 51 * cv.P.threshold * Cardinality(BlockPositions(cv, o))

\* dot d is the dot of the block at o: centred at o + blockSize/2, of radius
\* maxRadius * average / 255
IsDotOf(cv, d, o) ==
    /\ d.cx2 = 2 * o[1] + cv.P.blockSize
    /\ d.cy2 = 2 * o[2] + cv.P.blockSize
    /\ d.rnum * 255 * Cardinality(BlockPositions(cv, o))
           = cv.P.maxRadius * BrightnessSum(cv, BlockPositions(cv, o)) * d.rden

\* C10: the dots drawn are exactly one per grid origin whose block average
\* exceeds thresholdPercent * 2.55, each centred on its block with radius
\* maxRadius * average / 255; a white 16 x 16 raster with blockSize 8,
\* spacing 0, maxRadius 4 and threshold 0 gets four dots of radius 4 at
\* (4,4), (12,4), (4,12), (12,12).
C10_DotsAreTheBlocksAboveThreshold ==
    canvas.filled =>
        LET dots == Dots(canvas)
        IN  /\ \A o \in GridOrigins(canvas) :
                   AboveThreshold(canvas, o)
                       <=> \E i \in DOMAIN dots : IsDotOf(canvas, dots[i], o)
            /\ \A i \in DOMAIN dots :
                   \E o \in GridOrigins(canvas) : IsDotOf(canvas, dots[i], o)
            /\ Len(dots) = Cardinality({o \in GridOrigins(canvas) :
                                           AboveThreshold(canvas, o)})
            /\ (/\ canvas.width = 16 /\ canvas.height = 16
                /\ canvas.data = Raster(1, 16, 16)
                /\ canvas.P.blockSize = 8 /\ canvas.P.spacing = 0
                /\ canvas.P.maxRadius = 4 /\ canvas.P.threshold = 0)
               => /\ Len(dots) = 4
                  /\ {<<dots[i].cx2, dots[i].cy2>> : i \in DOMAIN dots}
                         = {<<8, 8>>, <<24, 8>>, <<8, 24>>, <<24, 24>>}
                  /\ \A i \in DOMAIN dots : dots[i].rnum = 4 * dots[i].rden

\* C11: the comparison with thresholdPercent * 2.55 is strict: a raster whose
\* every pixel has exactly that brightness gets no dot, and so an all-white
\* raster at threshold 100 is left as plain background.
C11_NoDotAtTheBoundary ==
    (/\ canvas.filled
     /\ \A i \in DOMAIN canvas.data :
            20 * Brightness(canvas.data[i]) = 51 * canvas.P.threshold)
        => Dots(canvas) = <<>>

(***************************************************************************)
(* The fitted size on its own: offscreen holds a source raster of          *)
(* arbitrary size, the decoded still image (loop 0, processImage lines     *)
(* 64-87) or the composite of a frame loop (loop 1, renderFrame lines      *)
(* 164-186), and the canvas is sized to fit it into the container.         *)
(***************************************************************************)
FitSourceSizes == {1, 2, 3, 7, 9, 49, 4096, 8192}
FitContainerSizes == {1, 4, 9, 100, 5000}

FitSources ==
    {[loop |-> lp, frame |-> 0, width |-> w, height |-> h, data |-> <<>>] :
        lp \in {0, 1}, w \in FitSourceSizes, h \in FitSourceSizes}

InitFit ==
    /\ image = 0
    /\ params = DefaultParams
    /\ options = [fastForwardFactor2 |-> 2, gifQuality |-> 15]
    /\ container \in FitContainerSizes \X FitContainerSizes
    /\ offscreen \in FitSources
    /\ canvas = BlankCanvas(300, 150)
    /\ capturedFrames = <<>>
    /\ loops = <<>>
    /\ reads = <<>>
    /\ resizeTimer = FALSE
    /\ jobs = <<>>
    /\ downloads = <<>>
    /\ ticks = 0
    /\ errors = {}
    /\ lastLoaded = 0
    /\ counts = [events |-> 0, ticks |-> 0, files |-> 0, encodes |-> 0]

\* lines 64-87 (loop 0) and 164-186 (loop 1): canvas.width and canvas.height
\* are set to the fitted size, which clears the canvas
SizeCanvas ==
    /\ canvas = BlankCanvas(300, 150)
    /\ LET size == IF offscreen.loop = 0
                   THEN processImageFit(offscreen.width, offscreen.height,
                                        container[1], container[2])
                   ELSE renderFrameFit(offscreen.width, offscreen.height,
                                       container[1], container[2])
       IN  canvas' = [BlankCanvas(size[1], size[2]) EXCEPT !.loop = offscreen.loop]
    /\ UNCHANGED <<image, params, options, container, offscreen, capturedFrames,
                   loops, reads, resizeTimer, jobs, downloads, ticks, errors, counts,
                   lastLoaded>>

NextFit == SizeCanvas

SpecFit == InitFit /\ [][NextFit]_vars

(***************************************************************************)
(* Claims about the fitted size.                                           *)
(***************************************************************************)
\* the canvas has been sized to fit the source
Sized == canvas # BlankCanvas(300, 150)

\* <<width, height>> is the floor of a size with the aspect ratio sw : sh:
\* some real w in [width, width + 1) has w * sh / sw in [height, height + 1)
FloorOfProportional(width, height, sw, sh) ==
    /\ width * sh < (height + 1) * sw
    /\ height * sw < (width + 1) * sh

\* C12: for positive source and container sizes the fitted size has no
\* dimension above 4096, is no larger than the source in either dimension,
\* and has the aspect ratio of the source but for the flooring of each
\* dimension to whole pixels.
C12_FitIsCappedNeverUpscalesKeepsAspect ==
    Sized =>
        /\ canvas.width <= MAX_CANVAS_SIZE /\ canvas.height <= MAX_CANVAS_SIZE
        /\ canvas.width <= offscreen.width /\ canvas.height <= offscreen.height
        /\ FloorOfProportional(canvas.width, canvas.height,
                               offscreen.width, offscreen.height)

(***************************************************************************)
(* Claims about the two copies of the dot transform.                       *)
(***************************************************************************)
\* C20: on the same pixel buffer, size and parameters the still-image path
\* and the animation-frame path draw the same dots: the same grid
\* placements, the same blocks drawn or skipped, the same centres and radii.
C20_StillAndFramePathsAgree ==
    canvas.filled =>
        processImageDots(canvas.data, canvas.width, canvas.height, canvas.P, 0)
            = renderFrameDots(canvas.data, canvas.width, canvas.height, canvas.P, 0)

\* a frame of white and red pixels, 7 x 7: the blocks at the right and lower
\* edge are clipped and the dots have different radii
C20_Witness ==
    /\ canvas.filled /\ canvas.loop = 1
    /\ canvas.data = Raster(6, 7, 7) /\ canvas.P.blockSize = 4 /\ canvas.P.spacing = 0
    /\ Len(Dots(canvas)) = 4
    /\ \E i, j \in DOMAIN Dots(canvas) :
           Dots(canvas)[i].rnum * Dots(canvas)[j].rden
               # Dots(canvas)[j].rnum * Dots(canvas)[i].rden

\* C21: the average of a block is never taken over zero samples: every block
\* the loops visit, in either path, has counted at least one pixel (its
\* origin), and as many as lie inside the raster.
C21_EveryAveragedBlockHasASample ==
    canvas.filled =>
        \A o \in GridOrigins(canvas) :
            LET still == processImageBlock(canvas.data, canvas.width, canvas.height,
                                           o[1], o[2], canvas.P.blockSize,
                                           canvas.P.blockSize)
                frame == renderFrameBlock(canvas.data, canvas.width, canvas.height,
                                          o[1], o[2], canvas.P.blockSize,
                                          canvas.P.blockSize)
            IN  /\ still[2] >= 1 /\ frame[2] >= 1
                /\ still[2] = Cardinality(BlockPositions(canvas, o))
                /\ frame[2] = Cardinality(BlockPositions(canvas, o))

\* a raster of one pixel under blocks of 8 x 8: the one block has one sample
C21_Witness ==
    /\ canvas.filled /\ canvas.width = 1 /\ canvas.height = 1
    /\ canvas.P.blockSize = 8
    /\ processImageBlock(canvas.data, 1, 1, 0, 0, 8, 8)[2] = 1

\* C24: for a source and a container of at least 1 x 1 the fitted width and
\* height are at least 1, so the canvas is never empty when its pixels are
\* read back.
C24_FittedSizeIsPositive ==
    Sized => (canvas.width >= 1 /\ canvas.height >= 1)

====
